---- MODULE Spec2Model ----
(***************************************************************************)
(* mockhouse/packaging_utils.py: the variants-augmented metadata record    *)
(* and the wheel -> metadata extraction call.                              *)
(*                                                                         *)
(* Two specifications share the variables:                                 *)
(*   Spec       one call of wheel_to_metadata_dict on an archive, one      *)
(*              action per step of the call (open the archive, locate,     *)
(*              open the entry, read, parse the headers, validate);        *)
(*   SpecParse  one call of parse_metadata_file_content on content drawn   *)
(*              from every header block of at most MaxLines lines, or on   *)
(*              absent content.                                            *)
(*                                                                         *)
(* Strings that the code inspects are modelled by what the code inspects:  *)
(* an entry name is a sequence of name chunks (str.endswith compares the   *)
(* tail of the sequence), metadata content is a sequence of header lines   *)
(* (header name as written, value).  The message payload (Description) of  *)
(* the email format is not modelled.  Python values None / str / list are  *)
(* tagged records so that None, "" and [] stay distinct.                   *)
(***************************************************************************)
EXTENDS Naturals, Sequences, FiniteSets

VARIABLES
    whl,            \* the archive: listing-ordered entries [name, content]
    pc,             \* position of the call
    log,            \* steps performed and handles released, in order
    archiveOpen,    \* the ZipFile handle is open
    entryOpen,      \* the entry stream is open
    metadata_file,  \* local of wheel_to_metadata_dict (line 67)
    opened,         \* listing index of the entry whl.open resolved, 0 if none
    content,        \* bytes read / argument of parse_metadata_file_content
    parsed,         \* (raw, unparsed) as returned by parse_email
    ins,            \* the Metadata instance: [raw, cache]
    result,         \* value returned to the caller
    error           \* exception that reached the caller

vars == <<whl, pc, log, archiveOpen, entryOpen, metadata_file, opened,
          content, parsed, ins, result, error>>

(***************************************************************************)
(* Bounds                                                                  *)
(***************************************************************************)
MaxEntries == 2
MaxLines == 5

(***************************************************************************)
(* Python values                                                           *)
(***************************************************************************)
None == [kind |-> "none"]
Str(s) == [kind |-> "str", val |-> s]
List(l) == [kind |-> "list", val |-> l]
Bytes(b) == [kind |-> "bytes", val |-> b]
IsNone(x) == x.kind = "none"

\* bool() of an optional str: None and "" are falsy
Truthy(x) == x.kind # "none" /\ x.val # <<>>

NoError == [kind |-> "none"]
Raised(k, m) == [kind |-> k, msg |-> m]

RangeOf(s) == {s[i] : i \in DOMAIN s}

(***************************************************************************)
(* The metadata schema: packaging.metadata's tables, restricted to the     *)
(* required fields, plus the entries this module patches in (lines 23-25)  *)
(* and the validator it declares (line 46).                                *)
(***************************************************************************)
EMAIL_TO_RAW_MAPPING ==
    [n \in {"metadata-version", "name", "version", "variant"} |->
        CASE n = "metadata-version" -> "metadata_version"
          [] n = "name" -> "name"
          [] n = "version" -> "version"
          [] n = "variant" -> "variants"]

RAW_TO_EMAIL_MAPPING ==
    [n \in {"metadata_version", "name", "version", "variants"} |->
        CASE n = "metadata_version" -> "metadata-version"
          [] n = "name" -> "name"
          [] n = "version" -> "version"
          [] n = "variants" -> "variant"]

STRING_FIELDS == {"metadata_version", "name", "version"}

\* variant of LIST_FIELDS: line 23 left out
LIST_FIELDS_unpatched == {}

LIST_FIELDS == {"variants"}

REQUIRED_ATTRS == {"metadata_version", "name", "version"}

VALID_METADATA_VERSIONS == <<"1.0", "1.1", "1.2", "2.1", "2.2", "2.3", "2.4", "2.5">>

\* variant of ValidatorAdded: variants declared with the default added="1.0"
ValidatorAddedDefault ==
    [n \in {"metadata_version", "name", "version", "variants"} |-> "1.0"]

\* _Validator(added=...) of each attribute of class Metadata; the inherited
\* validators are copied into the class namespace by MetadataMeta, so
\* cls.__dict__[key] finds every one of them.
ValidatorAdded ==
    [n \in {"metadata_version", "name", "version", "variants"} |->
        IF n = "variants" THEN "2.1" ELSE "1.0"]

\* list.index
IndexOf(seq, x) == CHOOSE i \in DOMAIN seq : seq[i] = x

(***************************************************************************)
(* Header text.  A line is [h: header name as written, v: value].          *)
(***************************************************************************)
\* str.lower on a header name
Lower(h) ==
    CASE h = "Metadata-Version" -> "metadata-version"
      [] h = "Name" -> "name"
      [] h = "Version" -> "version"
      [] h = "Variant" -> "variant"
      [] h = "Foo" -> "foo"
      [] OTHER -> h

\* Message.get_all(name): the values of the headers of that name, compared
\* case-insensitively, in the order the lines appear
get_all(lines, name) ==
    LET Named(l) == Lower(l.h) = name
        sel == SelectSeq(lines, Named)
    IN  [i \in 1..Len(sel) |-> sel[i].v]

\* parse_email: the header block to (raw, unparsed)
parse_email(data) ==
    LET lines == data.val
        keys == {Lower(lines[i].h) : i \in DOMAIN lines}
        Fits(n) ==
            /\ n \in DOMAIN EMAIL_TO_RAW_MAPPING
            /\ \/ EMAIL_TO_RAW_MAPPING[n] \in STRING_FIELDS /\ Len(get_all(lines, n)) = 1
               \/ EMAIL_TO_RAW_MAPPING[n] \in LIST_FIELDS
        good == {n \in keys : Fits(n)}
        Value(n) ==
            IF EMAIL_TO_RAW_MAPPING[n] \in STRING_FIELDS
            THEN Str(get_all(lines, n)[1])
            ELSE List(get_all(lines, n))
    IN  [kind |-> "tuple",
         raw |-> [rn \in {EMAIL_TO_RAW_MAPPING[n] : n \in good} |->
                    Value(CHOOSE n \in good : EMAIL_TO_RAW_MAPPING[n] = rn)],
         unparsed |-> [n \in keys \ good |-> get_all(lines, n)]]

(***************************************************************************)
(* Validation                                                              *)
(***************************************************************************)
ValidNames == {"dummy-project", "other-project"}
ValidVersions == {"0.0.1.dev1"}

InvalidMetadata(field, msg) == [field |-> field, msg |-> msg]

\* `not value` for an optional str
Falsy(value) == IsNone(value) \/ value.val = ""

\* _Validator._process_<name>: [exc, value]; a field with no _process_
\* method (variants) keeps its raw value
Convert(name, value) ==
    CASE name = "metadata_version" ->
            IF IsNone(value) \/ value.val \notin RangeOf(VALID_METADATA_VERSIONS)
            THEN [exc |-> {InvalidMetadata("metadata-version", "not a valid metadata version")},
                  value |-> None]
            ELSE [exc |-> {}, value |-> value]
      [] name = "name" ->
            IF Falsy(value)
            THEN [exc |-> {InvalidMetadata("name", "required field")}, value |-> None]
            ELSE IF value.val \notin ValidNames
            THEN [exc |-> {InvalidMetadata("name", "invalid")}, value |-> None]
            ELSE [exc |-> {}, value |-> value]
      [] name = "version" ->
            IF Falsy(value)
            THEN [exc |-> {InvalidMetadata("version", "required field")}, value |-> None]
            ELSE IF value.val \notin ValidVersions
            THEN [exc |-> {InvalidMetadata("version", "invalid")}, value |-> None]
            ELSE [exc |-> {}, value |-> [kind |-> "Version", val |-> value.val]]
      [] OTHER -> [exc |-> {}, value |-> value]

\* dict with key k removed / set
Without(d, k) == [x \in DOMAIN d \ {k} |-> d[x]]
With(d, k, v) == [x \in DOMAIN d \cup {k} |-> IF x = k THEN v ELSE d[x]]

\* variant of ValidatorGet: a list field that was not supplied reads as []
ValidatorGetEmptyList(i, name) ==
    IF name \in DOMAIN i.cache
    THEN [exc |-> {}, value |-> i.cache[name], ins |-> i]
    ELSE LET value == IF name \in DOMAIN i.raw THEN i.raw[name]
                      ELSE IF name \in LIST_FIELDS THEN List(<<>>) ELSE None
             conv == IF name \in REQUIRED_ATTRS \/ ~IsNone(value)
                     THEN Convert(name, value)
                     ELSE [exc |-> {}, value |-> value]
         IN  IF conv.exc # {}
             THEN [exc |-> conv.exc, value |-> None, ins |-> i]
             ELSE [exc |-> {}, value |-> conv.value,
                   ins |-> [i EXCEPT !.raw = Without(i.raw, name),
                                     !.cache = With(i.cache, name, conv.value)]]

\* _Validator.__get__ on instance i for attribute name: the value is taken
\* from i._raw, converted, cached in the instance and deleted from i._raw.
\* An attribute already cached is served from the instance __dict__.
ValidatorGet(i, name) ==
    IF name \in DOMAIN i.cache
    THEN [exc |-> {}, value |-> i.cache[name], ins |-> i]
    ELSE LET value == IF name \in DOMAIN i.raw THEN i.raw[name] ELSE None
             conv == IF name \in REQUIRED_ATTRS \/ ~IsNone(value)
                     THEN Convert(name, value)
                     ELSE [exc |-> {}, value |-> value]
         IN  IF conv.exc # {}
             THEN [exc |-> conv.exc, value |-> None, ins |-> i]
             ELSE [exc |-> {}, value |-> conv.value,
                   ins |-> [i EXCEPT !.raw = Without(i.raw, name),
                                     !.cache = With(i.cache, name, conv.value)]]

\* the body of from_raw's loop over fields_to_check, for one key:
\* the field's introduction version is compared with the declared
\* metadata version before the attribute is read
CheckField(i, key, metadata_version) ==
    IF /\ ~IsNone(metadata_version)
       /\ IndexOf(VALID_METADATA_VERSIONS, ValidatorAdded[key])
            > IndexOf(VALID_METADATA_VERSIONS, metadata_version.val)
    THEN [exc |-> {InvalidMetadata(RAW_TO_EMAIL_MAPPING[key], "introduced in a later metadata version")},
          ins |-> i]
    ELSE LET g == ValidatorGet(i, key)
         IN  [exc |-> g.exc, ins |-> g.ins]

RECURSIVE CheckFields(_, _, _)
CheckFields(i, keys, metadata_version) ==
    IF keys = {}
    THEN [exc |-> {}, ins |-> i]
    ELSE LET key == CHOOSE k \in keys : TRUE
             one == CheckField(i, key, metadata_version)
             rest == CheckFields(one.ins, keys \ {key}, metadata_version)
         IN  [exc |-> one.exc \cup rest.exc, ins |-> rest.ins]

\* Metadata.from_raw(data, validate=True): [exc, ins]
from_raw(data) ==
    LET ins0 == [kind |-> "Metadata", raw |-> data, cache |-> [x \in {} |-> None]]
        mv == ValidatorGet(ins0, "metadata_version")
        metadata_version == IF mv.exc = {} THEN mv.value ELSE None
        fields_to_check == (DOMAIN mv.ins.raw \cup REQUIRED_ATTRS) \ {"metadata_version"}
        loop == CheckFields(mv.ins, fields_to_check, metadata_version)
        exceptions == mv.exc \cup loop.exc
    IN  IF exceptions # {}
        THEN [exc |-> [kind |-> "ExceptionGroup", msg |-> "invalid metadata",
                       exceptions |-> exceptions],
              ins |-> None]
        ELSE [exc |-> NoError, ins |-> loop.ins]

\* the check of the unparsed headers in from_email(validate=True)
UnparsedErrors(unparsed) ==
    {InvalidMetadata(k, IF k \in DOMAIN EMAIL_TO_RAW_MAPPING
                        THEN "has invalid data" ELSE "unrecognized field")
        : k \in DOMAIN unparsed}

\* Metadata.from_email(data, validate=True): [exc, ins]
from_email(data) ==
    LET p == parse_email(data)
        r == from_raw(p.raw)
    IN  IF UnparsedErrors(p.unparsed) # {}
        THEN [exc |-> [kind |-> "ExceptionGroup", msg |-> "unparsed",
                       exceptions |-> UnparsedErrors(p.unparsed)],
              ins |-> None]
        ELSE IF r.exc # NoError
        THEN [exc |-> [r.exc EXCEPT !.msg = "invalid or unparsed metadata"], ins |-> None]
        ELSE r

\* variant of parse_metadata_file_content: `if content:` instead of
\* `if content is not None:`
parse_metadata_file_content_truthy(c) ==
    IF ~IsNone(c) /\ c.val # <<>>
    THEN from_email(c)
    ELSE [exc |-> Raised("NoMetadataError", ""), ins |-> None]

\* parse_metadata_file_content(content): [exc, ins]
parse_metadata_file_content(c) ==
    IF ~IsNone(c)
    THEN from_email(c)
    ELSE [exc |-> Raised("NoMetadataError", ""), ins |-> None]

\* attribute access on a parsed record, e.g. record.variants
Attr(i, name) == ValidatorGet(i, name).value

(***************************************************************************)
(* Inputs                                                                  *)
(***************************************************************************)
Line(h, v) == [h |-> h, v |-> v]

SeqsUpTo(S, n) == UNION {[1..k -> S] : k \in 0..n}

\* header lines of the content given to parse_metadata_file_content
ParseLines ==
    {Line("Metadata-Version", "2.1"), Line("Metadata-Version", "1.2"),
     Line("Name", "dummy-project"), Line("Version", "0.0.1.dev1"),
     Line("variant", "a"), Line("variant", "b"), Line("Foo", "x")}

ParseContents == {Bytes(l) : l \in SeqsUpTo(ParseLines, MaxLines)} \cup {None}

\* entry names, as chunks: the code only looks at how a name ends
EntryNames ==
    {<<"d.dist-info/", "METADATA">>, <<"e.egg-info/", "METADATA">>,
     <<"d.dist-info/", "PKG-INFO">>, <<"d.dist-info/", "METADATA", ".bak">>,
     <<"d/", "x.py">>}

WellFormed ==
    <<Line("Metadata-Version", "2.1"), Line("Name", "dummy-project"),
      Line("Version", "0.0.1.dev1")>>
WithVariants ==
    <<Line("Metadata-Version", "2.1"), Line("Name", "other-project"),
      Line("Version", "0.0.1.dev1"), Line("Variant", "a"), Line("variant", "b")>>
OldWithVariant ==
    <<Line("Metadata-Version", "1.2"), Line("Name", "dummy-project"),
      Line("Version", "0.0.1.dev1"), Line("variant", "a")>>
UnknownField ==
    <<Line("Metadata-Version", "2.1"), Line("Name", "dummy-project"),
      Line("Version", "0.0.1.dev1"), Line("Foo", "x")>>
NoVersion == <<Line("Metadata-Version", "2.1"), Line("Name", "dummy-project")>>

EntryContents == {WellFormed, WithVariants, OldWithVariant, UnknownField, NoVersion, <<>>}

Entries == [name : EntryNames, content : EntryContents]

Archives == SeqsUpTo(Entries, MaxEntries)

(***************************************************************************)
(* zipfile                                                                 *)
(***************************************************************************)
EntryName(n) == [kind |-> "str", val |-> n]

\* str.endswith
EndsWith(s, suffix) ==
    /\ Len(s) >= Len(suffix)
    /\ SubSeq(s, Len(s) - Len(suffix) + 1, Len(s)) = suffix

\* ZipFile.namelist(): the names in listing order
namelist(z) == [i \in 1..Len(z) |-> z[i].name]

\* variant of Matches: `"METADATA" in f` instead of f.endswith("METADATA")
MatchesAnywhere(f) == \E i \in DOMAIN f : f[i] = "METADATA"

\* variant of Matches: either conventional name is accepted
MatchesEitherSuffix(f) == EndsWith(f, <<"METADATA">>) \/ EndsWith(f, <<"PKG-INFO">>)

\* the generator's condition, line 68
Matches(f) == EndsWith(f, <<"METADATA">>)

\* variant of FirstMatch: the last matching name wins
LastMatch(names) ==
    IF \E i \in DOMAIN names : Matches(names[i])
    THEN EntryName(names[CHOOSE i \in DOMAIN names :
                            /\ Matches(names[i])
                            /\ \A j \in (i + 1)..Len(names) : ~Matches(names[j])])
    ELSE None

\* next((f for f in names if ...), None), lines 67-69
FirstMatch(names) ==
    IF \E i \in DOMAIN names : Matches(names[i])
    THEN EntryName(names[CHOOSE i \in DOMAIN names :
                            /\ Matches(names[i])
                            /\ \A j \in 1..(i - 1) : ~Matches(names[j])])
    ELSE None

\* ZipFile.open(name) -> getinfo(name): NameToInfo maps a name to the last
\* listed entry that bears it
Resolve(z, name) ==
    CHOOSE i \in DOMAIN z :
        /\ z[i].name = name
        /\ \A j \in (i + 1)..Len(z) : z[j].name # name

(***************************************************************************)
(* wheel_to_metadata_dict, one action per step                             *)
(***************************************************************************)
\* variant of Closes: the entry stream is opened without a with block
ClosesArchiveOnly(entry, archive) ==
    IF archive THEN <<"close_archive">> ELSE <<>>

\* __exit__ of the with blocks that are active: inner first
Closes(entry, archive) ==
    (IF entry THEN <<"close_entry">> ELSE <<>>) \o
    (IF archive THEN <<"close_archive">> ELSE <<>>)

\* the call ends in step `step` with a return value or an exception
Leave(step, res, err) ==
    /\ log' = log \o <<step>> \o Closes(entryOpen, archiveOpen)
    /\ entryOpen' = (entryOpen /\ "close_entry" \notin RangeOf(Closes(entryOpen, archiveOpen)))
    /\ archiveOpen' = (archiveOpen /\ "close_archive" \notin RangeOf(Closes(entryOpen, archiveOpen)))
    /\ result' = res
    /\ error' = err
    /\ pc' = "done"

Advance(step, to) ==
    /\ log' = Append(log, step)
    /\ pc' = to
    /\ UNCHANGED <<result, error>>

Init ==
    /\ whl \in Archives
    /\ pc = "call"
    /\ log = <<>>
    /\ archiveOpen = FALSE
    /\ entryOpen = FALSE
    /\ metadata_file = None
    /\ opened = 0
    /\ content = None
    /\ parsed = None
    /\ ins = None
    /\ result = None
    /\ error = NoError

\* line 65: the archive opens
OpenArchive ==
    /\ pc = "call"
    /\ archiveOpen' = TRUE
    /\ Advance("open_archive", "opened")
    /\ UNCHANGED <<whl, entryOpen, metadata_file, opened, content, parsed, ins>>

\* line 65: zipfile.ZipFile raises (not a zip file, unreadable path)
OpenArchiveFail ==
    /\ pc = "call"
    /\ Leave("open_archive", None, Raised("BadZipFile", "open_archive"))
    /\ UNCHANGED <<whl, metadata_file, opened, content, parsed, ins>>

\* variant of Locate: a missing entry yields an empty mapping instead of
\* FileNotFoundError
LocateSwallow ==
    /\ pc = "opened"
    /\ metadata_file' = FirstMatch(namelist(whl))
    /\ IF Truthy(metadata_file')
       THEN /\ Advance("locate", "located")
            /\ UNCHANGED <<archiveOpen, entryOpen>>
       ELSE Leave("locate", [kind |-> "dict", val |-> <<>>], NoError)
    /\ UNCHANGED <<whl, opened, content, parsed, ins>>

\* lines 67-71 and 76-77
Locate ==
    /\ pc = "opened"
    /\ metadata_file' = FirstMatch(namelist(whl))
    /\ IF Truthy(metadata_file')
       THEN /\ Advance("locate", "located")
            /\ UNCHANGED <<archiveOpen, entryOpen>>
       ELSE Leave("locate", None,
                  Raised("FileNotFoundError", "No METADATA file found in this wheel package."))
    /\ UNCHANGED <<whl, opened, content, parsed, ins>>

\* line 72: the entry stream opens
OpenEntry ==
    /\ pc = "located"
    /\ opened' = Resolve(whl, metadata_file.val)
    /\ entryOpen' = TRUE
    /\ Advance("open_entry", "entry_open")
    /\ UNCHANGED <<whl, archiveOpen, metadata_file, content, parsed, ins>>

\* line 72: ZipFile.open raises
OpenEntryFail ==
    /\ pc = "located"
    /\ Leave("open_entry", None, Raised("BadZipFile", "open_entry"))
    /\ UNCHANGED <<whl, metadata_file, opened, content, parsed, ins>>

\* line 73
ReadEntry ==
    /\ pc = "entry_open"
    /\ content' = Bytes(whl[opened].content)
    /\ Advance("read", "read")
    /\ UNCHANGED <<whl, archiveOpen, entryOpen, metadata_file, opened, parsed, ins>>

\* line 73: read raises (bad CRC, truncated data)
ReadEntryFail ==
    /\ pc = "entry_open"
    /\ Leave("read", None, Raised("BadZipFile", "read"))
    /\ UNCHANGED <<whl, metadata_file, opened, content, parsed, ins>>

\* line 75 -> lines 56-61 -> from_email up to the check of the unparsed headers
Parse ==
    /\ pc = "read"
    /\ IF IsNone(content)
       THEN /\ Leave("parse", None, parse_metadata_file_content(content).exc)
            /\ UNCHANGED parsed
       ELSE /\ parsed' = parse_email(content)
            /\ IF UnparsedErrors(parsed'.unparsed) # {}
               THEN Leave("parse", None, parse_metadata_file_content(content).exc)
               ELSE /\ Advance("parse", "parsed")
                    /\ UNCHANGED <<archiveOpen, entryOpen>>
    /\ UNCHANGED <<whl, metadata_file, opened, content, ins>>

\* the dict handed back by line 75
RawView(r) == [kind |-> "dict", val |-> r.ins.raw]

\* line 75: from_email's from_raw, then ._raw is returned
Validate ==
    /\ pc = "parsed"
    /\ LET r == parse_metadata_file_content(content)
       IN  /\ ins' = r.ins
           /\ IF r.exc # NoError
              THEN Leave("validate", None, r.exc)
              ELSE Leave("validate", RawView(r), NoError)
    /\ UNCHANGED <<whl, metadata_file, opened, content, parsed>>

Next ==
    \/ OpenArchive
    \/ OpenArchiveFail
    \/ Locate
    \/ OpenEntry
    \/ OpenEntryFail
    \/ ReadEntry
    \/ ReadEntryFail
    \/ Parse
    \/ Validate

Spec == Init /\ [][Next]_vars

(***************************************************************************)
(* parse_metadata_file_content called on its own                           *)
(***************************************************************************)
InitParse ==
    /\ whl = <<>>
    /\ pc = "parse_call"
    /\ log = <<>>
    /\ archiveOpen = FALSE
    /\ entryOpen = FALSE
    /\ metadata_file = None
    /\ opened = 0
    /\ content \in ParseContents
    /\ parsed = None
    /\ ins = None
    /\ result = None
    /\ error = NoError

\* lines 53-61
ParseCall ==
    /\ pc = "parse_call"
    /\ LET r == parse_metadata_file_content(content)
       IN  /\ ins' = r.ins
           /\ error' = r.exc
    /\ pc' = "parse_done"
    /\ UNCHANGED <<whl, log, archiveOpen, entryOpen, metadata_file, opened,
                   content, parsed, result>>

NextParse == ParseCall

SpecParse == InitParse /\ [][NextParse]_vars

(***************************************************************************)
(* Properties                                                              *)
(***************************************************************************)
Steps == <<"open_archive", "locate", "open_entry", "read", "parse", "validate">>

IsStep(e) == e \in RangeOf(Steps)

\* the steps of the call so far, without the releases
StepsOf(l) == SelectSeq(l, IsStep)

Returned == pc = "done" /\ error = NoError

\* the archive opened and its listing was inspected
Listed == "locate" \in RangeOf(log)

\* the values of the header lines written with name h, front to back
RECURSIVE ValuesOf(_, _)
ValuesOf(lines, h) ==
    IF lines = <<>>
    THEN <<>>
    ELSE (IF Head(lines).h = h THEN <<Head(lines).v>> ELSE <<>>)
            \o ValuesOf(Tail(lines), h)

HasKey(d, k, v) == k \in DOMAIN d /\ d[k] = Str(v)

\* C1: whenever extract_metadata returns for an archive whose METADATA entry
\* carries a Name and a Version header, the mapping returned holds the keys
\* name and version bound to the literal header values.
C1_ReturnedMappingHasNameAndVersion ==
    Returned =>
        /\ result.kind = "dict"
        /\ HasKey(result.val, "name", ValuesOf(content.val, "Name")[1])
        /\ HasKey(result.val, "version", ValuesOf(content.val, "Version")[1])

EndsInMetadata(n) == EndsWith(n, <<"METADATA">>)
EndsInPkgInfo(n) == EndsWith(n, <<"PKG-INFO">>)

NoCandidate(z) ==
    \A i \in DOMAIN z : ~EndsInMetadata(z[i].name) /\ ~EndsInPkgInfo(z[i].name)

\* C2: for an archive in which no entry name ends in METADATA or PKG-INFO the
\* call never opens an entry and never runs the parser, and once the listing
\* has been inspected it ends with FileNotFoundError.
C2_NoCandidateIsNotFound ==
    NoCandidate(whl) =>
        /\ opened = 0
        /\ ~entryOpen
        /\ IsNone(content)
        /\ IsNone(parsed)
        /\ "open_entry" \notin RangeOf(log)
        /\ "parse" \notin RangeOf(log)
        /\ (pc = "done" /\ Listed) => error.kind = "FileNotFoundError"

C2_Witness ==
    /\ pc = "done"
    /\ Len(whl) = 2
    /\ NoCandidate(whl)
    /\ \E i \in DOMAIN whl : whl[i].name = <<"d.dist-info/", "METADATA", ".bak">>
    /\ error.kind = "FileNotFoundError"

OnlyPkgInfo(z) ==
    /\ \E i \in DOMAIN z : EndsInPkgInfo(z[i].name)
    /\ \A i \in DOMAIN z : ~EndsInMetadata(z[i].name)

\* C3 as claimed: an archive whose only candidate entry ends in PKG-INFO is
\* located, read and parsed instead of being reported as not found.
C3_PkgInfoIsLocated ==
    (pc = "done" /\ Listed /\ OnlyPkgInfo(whl)) =>
        /\ error.kind # "FileNotFoundError"
        /\ opened # 0

\* C3 as amended: only the METADATA suffix is accepted.  The name located
\* always ends in METADATA, and an archive in which no name ends in METADATA
\* (its only candidate ending in PKG-INFO included) ends with
\* FileNotFoundError without any entry being opened.
C3_OnlyMetadataSuffixIsLocated ==
    /\ ~IsNone(metadata_file) => EndsInMetadata(metadata_file.val)
    /\ opened # 0 => EndsInMetadata(whl[opened].name)
    /\ (\A i \in DOMAIN whl : ~EndsInMetadata(whl[i].name)) =>
            /\ opened = 0
            /\ "open_entry" \notin RangeOf(log)
            /\ (pc = "done" /\ Listed) => error.kind = "FileNotFoundError"

C3_Witness ==
    /\ pc = "done"
    /\ OnlyPkgInfo(whl)
    /\ error.kind = "FileNotFoundError"
    /\ opened = 0

\* the exception a failing step raises
RaisedBy(step, e) ==
    CASE step \in {"open_archive", "open_entry", "read"} ->
            e = Raised("BadZipFile", step)
      [] step = "locate" -> e.kind = "FileNotFoundError"
      [] step = "parse" ->
            \/ e.kind = "NoMetadataError"
            \/ e.kind = "ExceptionGroup" /\ e.msg = "unparsed"
      [] step = "validate" ->
            e.kind = "ExceptionGroup" /\ e.msg = "invalid or unparsed metadata"

\* C7: the steps of one call are a prefix of open, locate, open entry, read,
\* parse, validate (in that order, each at most once); the call returns a
\* mapping only after the last step, and a call that ends earlier, or in a
\* failing validation, ends with no result and with the exception of the
\* last step it ran.
C7_StepsAreLinearAndErrorsPropagate ==
    LET done == StepsOf(log)
        n == Len(done)
    IN  /\ n <= Len(Steps)
        /\ done = SubSeq(Steps, 1, n)
        /\ pc # "done" => error = NoError /\ IsNone(result)
        /\ pc = "done" =>
              /\ n >= 1
              /\ IF error = NoError
                 THEN n = Len(Steps) /\ result.kind = "dict" /\ ~IsNone(ins)
                 ELSE IsNone(result) /\ RaisedBy(done[n], error)

C7_Witness ==
    /\ pc = "done"
    /\ StepsOf(log) = SubSeq(Steps, 1, 5)
    /\ error.kind = "ExceptionGroup"
    /\ error.msg = "unparsed"
    /\ IsNone(result)

\* C8: the entry stream is open only while the archive handle is; when the
\* call has ended neither is open, every handle that was opened has been
\* released exactly once, and the entry stream is released before the
\* archive handle, which is released last.
C8_HandlesReleasedOnEveryExit ==
    LET releases == SelectSeq(log, LAMBDA e : ~IsStep(e))
    IN  /\ entryOpen => archiveOpen
        /\ pc # "done" => releases = <<>>
        /\ pc = "done" =>
              /\ ~archiveOpen
              /\ ~entryOpen
              /\ releases = (IF opened # 0 THEN <<"close_entry">> ELSE <<>>)
                              \o (IF Listed THEN <<"close_archive">> ELSE <<>>)
              /\ SubSeq(log, Len(log) - Len(releases) + 1, Len(log)) = releases

C8_Witness ==
    /\ pc = "done"
    /\ error.kind = "ExceptionGroup"
    /\ opened # 0
    /\ SubSeq(log, Len(log) - 1, Len(log)) = <<"close_entry", "close_archive">>

\* listing index of the first entry whose name ends in METADATA
FirstMatchingIndex(z) ==
    CHOOSE i \in DOMAIN z :
        /\ EndsInMetadata(z[i].name)
        /\ \A j \in 1..(i - 1) : ~EndsInMetadata(z[j].name)

\* C9 as claimed: the entry opened is the first entry in listing order whose
\* name matches; no later matching entry is opened.
C9_FirstMatchingEntryIsRead ==
    opened # 0 => opened = FirstMatchingIndex(whl)

\* C9 as amended: the name looked up is the name of the first matching entry
\* in listing order; the entry opened is the last listed entry bearing that
\* name, so it is the first matching entry whenever no later entry repeats
\* its name, and the bytes read are that entry's.
C9_FirstMatchingNameIsRead ==
    /\ ~IsNone(metadata_file) => metadata_file.val = whl[FirstMatchingIndex(whl)].name
    /\ opened # 0 =>
          /\ whl[opened].name = whl[FirstMatchingIndex(whl)].name
          /\ \A j \in (opened + 1)..Len(whl) : whl[j].name # whl[opened].name
          /\ (\A j \in (FirstMatchingIndex(whl) + 1)..Len(whl) :
                    whl[j].name # whl[FirstMatchingIndex(whl)].name)
                => opened = FirstMatchingIndex(whl)
          /\ ~IsNone(content) => content = Bytes(whl[opened].content)

C9_Witness ==
    /\ Len(whl) = 2
    /\ EndsInMetadata(whl[1].name)
    /\ EndsInMetadata(whl[2].name)
    /\ whl[1].name # whl[2].name
    /\ whl[1].content # whl[2].content
    /\ opened = 1
    /\ content = Bytes(whl[1].content)

ParseDone == pc = "parse_done"

\* the header block, apart from its variant lines and its declared metadata
\* version, is one the validator accepts: one Name line, one Version line,
\* one Metadata-Version line and no unrecognised header
Regular(lines) ==
    /\ Len(ValuesOf(lines, "Metadata-Version")) = 1
    /\ Len(ValuesOf(lines, "Name")) = 1
    /\ Len(ValuesOf(lines, "Version")) = 1
    /\ \A i \in DOMAIN lines :
            lines[i].h \in {"Metadata-Version", "Name", "Version", "variant"}

Declares(lines, v) == ValuesOf(lines, "Metadata-Version") = <<v>>

\* C4: parse_metadata_file_content ends with NoMetadataError exactly when
\* its content is None; present content, empty bytes included, either yields
\* a record or the ExceptionGroup of the header parser / validator.
C4_NoMetadataErrorIffAbsent ==
    ParseDone =>
        /\ error.kind = "NoMetadataError" <=> IsNone(content)
        /\ ~IsNone(content) =>
              /\ error.kind \in {"none", "ExceptionGroup"}
              /\ error = NoError <=> ~IsNone(ins)

C4_Witness ==
    /\ ParseDone
    /\ content = Bytes(<<>>)
    /\ error.kind = "ExceptionGroup"

\* C5: for a regular header block that declares metadata version 2.1 and
\* repeats the variant header, parsing succeeds and record.variants is the
\* list of the variant values in the order of the lines.
C5_VariantsKeepLineOrder ==
    (/\ ParseDone
     /\ ~IsNone(content)
     /\ Regular(content.val)
     /\ Declares(content.val, "2.1")
     /\ ValuesOf(content.val, "variant") # <<>>) =>
        /\ error = NoError
        /\ Attr(ins, "variants") = List(ValuesOf(content.val, "variant"))

C5_Witness ==
    /\ ParseDone
    /\ error = NoError
    /\ ValuesOf(content.val, "variant") = <<"a", "b">>
    /\ Attr(ins, "variants") = List(<<"a", "b">>)

\* C6: for a regular header block with no variant line, parsing succeeds
\* and record.variants is None, not an empty list.
C6_VariantsAbsentIsNone ==
    (/\ ParseDone
     /\ ~IsNone(content)
     /\ Regular(content.val)
     /\ ValuesOf(content.val, "variant") = <<>>) =>
        /\ error = NoError
        /\ IsNone(Attr(ins, "variants"))
        /\ Attr(ins, "variants") # List(<<>>)

C6_Witness ==
    /\ ParseDone
    /\ error = NoError
    /\ Declares(content.val, "1.2")
    /\ IsNone(Attr(ins, "variants"))

\* C10 as claimed: a regular header block that declares a metadata version
\* older than 2.1 and carries a variant header is parsed and validated
\* successfully, variants holding the supplied values.
C10_OlderVersionWithVariantAccepted ==
    (/\ ParseDone
     /\ ~IsNone(content)
     /\ Regular(content.val)
     /\ Declares(content.val, "1.2")
     /\ ValuesOf(content.val, "variant") # <<>>) =>
        /\ error = NoError
        /\ Attr(ins, "variants") = List(ValuesOf(content.val, "variant"))

\* C10 as amended: the introduction version of the variant field is enforced
\* by validation.  Content that declares a metadata version older than 2.1
\* and carries a variant header is rejected with an ExceptionGroup (for a
\* regular block, exactly the InvalidMetadata naming the variant field), and
\* a record that holds variants was parsed from content declaring 2.1.
C10_IntroductionVersionEnforced ==
    ParseDone =>
        /\ (/\ ~IsNone(content)
            /\ Declares(content.val, "1.2")
            /\ ValuesOf(content.val, "variant") # <<>>) =>
                /\ error.kind = "ExceptionGroup"
                /\ IsNone(ins)
                /\ Regular(content.val) =>
                     error.exceptions =
                        {InvalidMetadata("variant", "introduced in a later metadata version")}
        /\ (error = NoError /\ ~IsNone(Attr(ins, "variants"))) =>
                Declares(content.val, "2.1")

C10_Witness ==
    /\ ParseDone
    /\ ~IsNone(content)
    /\ Regular(content.val)
    /\ Declares(content.val, "1.2")
    /\ ValuesOf(content.val, "variant") = <<"a">>
    /\ error.kind = "ExceptionGroup"
    /\ error.exceptions = {InvalidMetadata("variant", "introduced in a later metadata version")}

====
